---- MODULE Spec2Model ----
(***************************************************************************)
(* A model of the taxy reverse proxy core:                                 *)
(*   - the TCP port context (taxy/src/proxy/tcp.rs): construction, setup,  *)
(*     refresh, apply, event, reset, start_proxy, and the forwarding task  *)
(*     `start` that start_proxy spawns;                                    *)
(*   - the listener pool (taxy/src/server/listener.rs): update and the    *)
(*     bookkeeping of bound sockets, select and poll_next;                 *)
(*   - the keyring (taxy/src/keyring/mod.rs) and the order of its          *)
(*     certificates (taxy/src/keyring/certs.rs).                           *)
(* SpecPort, SpecForward and SpecStatus run one port context, SpecPool and *)
(* SpecSelect the listener pool over a vector of port contexts,            *)
(* SpecKeyring a keyring.                                                  *)
(***************************************************************************)
EXTENDS Integers, Sequences, FiniteSets, TLC

VARIABLES
    ctx,              \* the TcpPortContext under test (SpecPort)
    tasks,            \* the forwarding tasks spawned by start_proxy, by slot
    permits,          \* Notify objects that hold a stored permit
    log,              \* history: upstream index chosen by each start_proxy
    fresh,            \* history: no apply() since the context was constructed
    ports,            \* the vector of port contexts handed to update() (SpecPool)
    listeners,        \* TcpListenerPool.listeners
    http_challenges,  \* TcpListenerPool.http_challenges
    os,               \* the operating system: the ports on which bind() fails
    keyring,          \* Keyring.certs: the items, one per identifier
    last              \* history: the operation that produced this state, for
                      \* the operations whose effect is stated on the state
                      \* they leave; [op |-> "other"] for the rest

portVars == <<ctx, tasks, permits, log, fresh>>
poolVars == <<ports, listeners, http_challenges, os>>
vars == <<ctx, tasks, permits, log, fresh, ports, listeners, http_challenges, os,
          keyring, last>>

----------------------------------------------------------------------------
(* Bounds of the model.                                                     *)

MaxConns == 6      \* start_proxy calls explored on one port context
FwdConns == 2      \* start_proxy calls explored while forwarders are followed
MaxTasks == 1      \* forwarding tasks alive at the same time
MaxTime == 2       \* readings of the system clock: 1..MaxTime
MaxPorts == 2      \* port contexts in the vector handed to update()
MaxFaults == 1     \* ports on which bind() fails at the same time
MaxDigit == 1      \* digits of a fingerprint: 0..MaxDigit
MaxName == 5       \* characters of a DNS name
MaxSan == 2        \* subject alternative names of a certificate
MaxStack == 4      \* protocols of a Multiaddr

----------------------------------------------------------------------------
(* Option and Result.                                                       *)

Other == [op |-> "other"]

None == [some |-> FALSE]
Some(v) == [some |-> TRUE, v |-> v]
Ok(v) == [ok |-> TRUE, v |-> v]
Err(e) == [ok |-> FALSE, err |-> e]

Min(S) == CHOOSE x \in S : \A y \in S : x <= y

----------------------------------------------------------------------------
(* Multiaddr stacks, as the sequence of protocols `addr.iter()` yields.     *)

Ip4(a) == [p |-> "ip4", addr |-> a, port |-> 0]
Ip6(a) == [p |-> "ip6", addr |-> a, port |-> 0]
Dns(n) == [p |-> "dns", addr |-> n, port |-> 0]
Tcp(n) == [p |-> "tcp", addr |-> "", port |-> n]
Tls == [p |-> "tls", addr |-> "", port |-> 0]

SocketAddr(ip, port) == [ip |-> ip, port |-> port]

\* rustls ServerName::try_from: the names the model uses that are no DNS names
InvalidDnsNames == {"bad name"}

multiaddr_to_tcp(stack) ==
    IF /\ Len(stack) >= 2
       /\ stack[1].p \in {"ip4", "ip6"}
       /\ stack[2].p = "tcp"
       /\ stack[2].port > 0
    THEN Ok(SocketAddr(stack[1].addr, stack[2].port))
    ELSE Err("InvalidListeningAddress")

multiaddr_to_host(stack) ==
    LET tls == Len(stack) >= 1 /\ stack[Len(stack)] = Tls
    IN  IF Len(stack) >= 2 /\ stack[2].p = "tcp" /\ stack[2].port > 0
        THEN CASE stack[1].p \in {"ip4", "ip6"} ->
                    Ok([name |-> <<"IpAddress", stack[1].addr>>,
                        port |-> stack[2].port, tls |-> tls])
               [] stack[1].p = "dns" ->
                    IF stack[1].addr \in InvalidDnsNames
                    THEN Err("InvalidServerAddress")
                    ELSE Ok([name |-> <<"DnsName", stack[1].addr>>,
                             port |-> stack[2].port, tls |-> tls])
               [] OTHER -> Err("InvalidServerAddress")
        ELSE Err("InvalidServerAddress")

----------------------------------------------------------------------------
(* Socket state and the port status.                                        *)

SocketStates ==
    {"Unknown", "Listening", "PortAlreadyInUse", "PermissionDenied",
     "AddressNotAvailable", "Error"}

Times == 1..MaxTime

\* PortStatus::default(): socket Unknown, no TLS state, no started_at
DefaultStatus == [socket |-> "Unknown", tls |-> None, started_at |-> None]

\* an event that never clears started_at
EventStatus_keep(status, state, now) ==
    [status EXCEPT
        !.started_at = IF status.socket # state /\ state = "Listening"
                       THEN Some(now)
                       ELSE @,
        !.socket = state]

\* an event that restarts the clock at every Listening
EventStatus_restart(status, state, now) ==
    [status EXCEPT
        !.started_at = IF state = "Listening" THEN Some(now) ELSE None,
        !.socket = state]

\* the body of TcpPortContext::event for SocketStateUpadted(state), on a status
EventStatus(status, state, now) ==
    [status EXCEPT
        !.started_at = IF status.socket # state
                       THEN (IF state = "Listening" THEN Some(now) ELSE None)
                       ELSE @,
        !.socket = state]

----------------------------------------------------------------------------
(* TcpPortContext.                                                          *)

\* TlsTermination::new: a termination block whose acceptor is built by setup
TlsTermination_new == [acceptor |-> FALSE]

RECURSIVE ParseServers(_)
\* the loop of TcpPortContext::new over upstream_servers, stopping at the
\* first address multiaddr_to_host rejects
ParseServers(addrs) ==
    IF addrs = <<>> THEN Ok(<<>>)
    ELSE LET head == multiaddr_to_host(Head(addrs))
         IN  IF ~head.ok THEN head
             ELSE LET rest == ParseServers(Tail(addrs))
                  IN  IF ~rest.ok THEN rest
                      ELSE Ok(<<head.v>> \o rest.v)

\* TcpPortContext::new(entry); notify is the identity of the Notify it allocates
New(entry, notify) ==
    LET listen == multiaddr_to_tcp(entry.listen)
        servers == ParseServers(entry.upstream_servers)
    IN  IF ~listen.ok THEN listen
        ELSE IF ~servers.ok THEN servers
        ELSE IF ~entry.tls_termination
                /\ \E k \in 1..Len(entry.listen) : entry.listen[k] = Tls
        THEN Err("TlsTerminationConfigMissing")
        ELSE Ok([listen |-> listen.v,
                 servers |-> servers.v,
                 status |-> DefaultStatus,
                 tls_termination |-> IF entry.tls_termination
                                     THEN Some(TlsTermination_new)
                                     ELSE None,
                 tls_client_config |-> FALSE,
                 round_robin_counter |-> 0,
                 stop_notifier |-> notify])

\* TcpPortContext::setup on a context value; acceptor is what the TLS
\* termination's setup built from the keyring
SetupCtx(c, acceptor) ==
    LET use_tls == \E k \in 1..Len(c.servers) : c.servers[k].tls
    IN  [c EXCEPT
            !.tls_client_config = IF ~@ /\ use_tls THEN TRUE ELSE @,
            !.tls_termination = IF @.some THEN Some([acceptor |-> acceptor]) ELSE @,
            !.status.tls = IF c.tls_termination.some THEN Some(acceptor) ELSE @]

\* TcpPortContext::refresh on a context value
RefreshCtx(c, acceptor) ==
    [c EXCEPT
        !.tls_termination = IF @.some THEN Some([acceptor |-> acceptor]) ELSE @,
        !.status.tls = IF c.tls_termination.some THEN Some(acceptor) ELSE @]

\* apply as a plain assignment *self = new
ApplyCtx_replace(self, new) == new

\* TcpPortContext::apply: *self = Self { round_robin_counter, stop_notifier, ..new }
ApplyCtx(self, new) ==
    [new EXCEPT
        !.round_robin_counter = self.round_robin_counter,
        !.stop_notifier = self.stop_notifier]

\* an increment that skips a value
wrapping_add1_skip(n) == n + 2

\* usize::wrapping_add(1); the counter stays far below usize::MAX within MaxConns
wrapping_add1(n) == n + 1

----------------------------------------------------------------------------
(* The port entries the model constructs contexts from.                     *)

UA == <<Ip4("10.0.0.1"), Tcp(9001)>>
UB == <<Ip4("10.0.0.2"), Tcp(9002)>>
UC == <<Dns("c.test"), Tcp(9003)>>
UT == <<Dns("t.test"), Tcp(443), Tls>>

Listen1 == <<Ip4("127.0.0.1"), Tcp(7001)>>
Listen2 == <<Ip4("127.0.0.1"), Tcp(7002), Tls>>

PortEntry(listen, upstream, tls) ==
    [listen |-> listen, upstream_servers |-> upstream, tls_termination |-> tls]

Entries ==
    { PortEntry(Listen1, <<UA, UB, UC>>, FALSE),
      PortEntry(Listen2, <<UA, UT>>, TRUE),
      PortEntry(Listen1, <<>>, FALSE),
      PortEntry(Listen2, <<UA>>, FALSE),                    \* /tls without a block
      PortEntry(<<Ip4("127.0.0.1"), Tcp(0)>>, <<UA>>, FALSE) }  \* port zero

\* the upstreams of the round-robin scenario, as parsed connections
ConnA == multiaddr_to_host(UA).v
ConnB == multiaddr_to_host(UB).v
ConnC == multiaddr_to_host(UC).v

----------------------------------------------------------------------------
(* Forwarding tasks (the future `start` spawned by start_proxy).  A task    *)
(* is at one of the await points of `start`; the Notified future of its     *)
(* select! exists only while pc = "copy".  tls_acceptor and                 *)
(* tls_client_config are held until `start` has consumed them; the upstream *)
(* conn the task connects to is the one start_proxy recorded in log and     *)
(* last.  reset_in is history: the phases of the task in which reset() was  *)
(* called; "before" marks a task spawned by the call that follows a         *)
(* reset(), until a reset() is called during the task.                      *)

Slots == 1..MaxTasks

Handshake == {"lookup", "connect", "tls_accept", "tls_connect"}

Idle ==
    [pc |-> "idle", tls_client_config |-> FALSE,
     tls_acceptor |-> FALSE, stop_notifier |-> 0, notified |-> FALSE,
     reset_in |-> {}]

\* Notify identities in use: the context's and those captured by live tasks
NotifyInUse == {ctx.stop_notifier} \cup {tasks[i].stop_notifier : i \in Slots}

\* Arc::new(Notify::new()): an object distinct from every live one
FreshNotify == Min((0..(MaxTasks + 1)) \ NotifyInUse)

\* the phase a task enters after a step of the handshake sequence of `start`
AfterConnect(t) ==
    IF t.tls_acceptor THEN "tls_accept"
    ELSE IF t.tls_client_config THEN "tls_connect"
    ELSE "copy"

AfterTlsAccept(t) == IF t.tls_client_config THEN "tls_connect" ELSE "copy"

\* entering select!: stop_notifier.notified() is created; it completes at once
\* only when the Notify holds a stored permit, which it then consumes
EnterPhase(i, phase) ==
    LET t == tasks[i]
        permit == phase = "copy" /\ t.stop_notifier \in permits
    IN  /\ tasks' = [tasks EXCEPT ![i] =
                        [t EXCEPT !.pc = phase,
                                  !.notified = permit,
                                  !.tls_acceptor = @ /\ phase \in {"connect", "tls_accept"},
                                  !.tls_client_config = @ /\ phase # "copy"]]
        /\ permits' = IF permit THEN permits \ {t.stop_notifier} ELSE permits

\* the streams on which shutdown() has been called when the task ends at pc
ShutdownCalled(pc) ==
    IF pc \in {"shutdown_only", "shutdown_in"} THEN {"stream"}
    ELSE IF pc = "shutdown_out" THEN {"stream", "out"}
    ELSE {}

\* the task returns (or unwinds): its slot is free again
EndTask(i, result) ==
    /\ tasks' = [tasks EXCEPT ![i] = Idle]
    /\ last' = [op |-> "task_end", at |-> tasks[i].pc,
                result |-> result, shutdown |-> ShutdownCalled(tasks[i].pc)]

\* Notify::notify_one in place of notify_waiters: with no waiter, a permit is
\* stored for the next notified()
notify_one_permit(n) ==
    /\ tasks' = [i \in Slots |->
                    LET t == tasks[i]
                    IN  IF t.pc \in Handshake
                        THEN [t EXCEPT !.reset_in = (@ \ {"before"}) \cup {"handshake"}]
                        ELSE IF t.pc = "copy"
                        THEN [t EXCEPT !.notified = @ \/ t.stop_notifier = n,
                                       !.reset_in = (@ \ {"before"}) \cup {"copy"}]
                        ELSE t]
    /\ permits' = IF \E i \in Slots : tasks[i].pc = "copy" /\ tasks[i].stop_notifier = n
                  THEN permits
                  ELSE permits \cup {n}

\* Notify::notify_waiters on notify n: every Notified future that exists is
\* completed; no permit is stored
notify_waiters(n) ==
    /\ tasks' = [i \in Slots |->
                    LET t == tasks[i]
                    IN  IF t.pc \in Handshake
                        THEN [t EXCEPT !.reset_in = (@ \ {"before"}) \cup {"handshake"}]
                        ELSE IF t.pc = "copy"
                        THEN [t EXCEPT !.notified = @ \/ t.stop_notifier = n,
                                       !.reset_in = (@ \ {"before"}) \cup {"copy"}]
                        ELSE t]
    /\ permits' = permits

----------------------------------------------------------------------------
(* Operations on the port context.                                          *)

\* setup(keyring, sites)
Setup ==
    /\ \E acceptor \in BOOLEAN : ctx' = SetupCtx(ctx, acceptor)
    /\ last' = Other
    /\ UNCHANGED <<tasks, permits, log, fresh>>
    /\ UNCHANGED <<poolVars, keyring>>

\* refresh(certs)
Refresh ==
    /\ ctx.tls_termination.some
    /\ \E acceptor \in BOOLEAN : ctx' = RefreshCtx(ctx, acceptor)
    /\ last' = Other
    /\ UNCHANGED <<tasks, permits, log, fresh>>
    /\ UNCHANGED <<poolVars, keyring>>

\* apply(new), new being a context built from a port entry and possibly set up
Apply ==
    \E e \in Entries, set_up \in BOOLEAN, acceptor \in BOOLEAN :
        LET built == New(e, FreshNotify)
            new == IF set_up THEN SetupCtx(built.v, acceptor) ELSE built.v
        IN  /\ built.ok
            /\ ~set_up => ~acceptor
            /\ ctx' = ApplyCtx(ctx, new)
            /\ log' = IF new.servers = ctx.servers THEN log ELSE <<>>
            /\ fresh' = FALSE
            /\ last' = [op |-> "apply", new |-> new,
                        round_robin_counter |-> ctx.round_robin_counter,
                        stop_notifier |-> ctx.stop_notifier]
            /\ UNCHANGED <<tasks, permits>>
            /\ UNCHANGED <<poolVars, keyring>>

\* event(SocketStateUpadted(state))
Event ==
    \E state \in SocketStates, now \in Times :
        /\ ctx' = [ctx EXCEPT !.status = EventStatus(@, state, now)]
        /\ last' = [op |-> "event", state |-> state, now |-> now]
        /\ UNCHANGED <<tasks, permits, log, fresh>>
        /\ UNCHANGED <<poolVars, keyring>>

\* reset()
Reset ==
    /\ notify_waiters(ctx.stop_notifier)
    /\ last' = [op |-> "reset"]
    /\ UNCHANGED <<ctx, log, fresh>>
    /\ UNCHANGED <<poolVars, keyring>>

\* the slot of the next spawned task: the first free one (0: none is free)
FreeSlot == Min({i \in Slots : tasks[i].pc = "idle"} \cup {MaxTasks + 1}) % (MaxTasks + 1)

\* what start_proxy hands to the spawned `start`
Spawned(tls_client_config, tls_acceptor, stop_notifier) ==
    [pc |-> "lookup", tls_client_config |-> tls_client_config,
     tls_acceptor |-> tls_acceptor, stop_notifier |-> stop_notifier,
     notified |-> FALSE,
     reset_in |-> IF last.op = "reset" THEN {"before"} ELSE {}]

\* selection after the increment instead of before it
SelectIndex_after(c) == (c.round_robin_counter + 1) % Len(c.servers)

\* the upstream start_proxy selects
SelectIndex(c) == c.round_robin_counter % Len(c.servers)

\* start_proxy(stream) with no upstream: the stream is shut down in a task
StartProxyEmpty ==
    /\ ctx.servers = <<>>
    /\ \E i \in Slots :
        /\ i = FreeSlot
        /\ tasks' = [tasks EXCEPT ![i] = [Idle EXCEPT !.pc = "shutdown_only"]]
        /\ last' = Other
    /\ UNCHANGED <<ctx, permits, log, fresh>>
    /\ UNCHANGED <<poolVars, keyring>>

\* start_proxy(stream) with upstreams
StartProxy ==
    /\ ctx.servers # <<>>
    /\ ctx.round_robin_counter < MaxConns
    /\ \E i \in Slots :
        /\ i = FreeSlot
        /\ LET index == SelectIndex(ctx)
               conn == ctx.servers[index + 1]
               tls_client_config == ctx.tls_client_config /\ conn.tls
               tls_acceptor == ctx.tls_termination.some
                               /\ ctx.tls_termination.v.acceptor
           IN  /\ tasks' = [tasks EXCEPT ![i] =
                              Spawned(tls_client_config, tls_acceptor,
                                      ctx.stop_notifier)]
               /\ log' = Append(log, [index |-> index, conn |-> conn])
               /\ last' = [op |-> "start_proxy", task |-> i, spawned |-> TRUE,
                           conn |-> conn,
                           tls_client_config |-> tls_client_config,
                           tls_acceptor |-> tls_acceptor]
        /\ ctx' = [ctx EXCEPT !.round_robin_counter = wrapping_add1(@)]
    /\ UNCHANGED <<permits, fresh>>
    /\ UNCHANGED <<poolVars, keyring>>

----------------------------------------------------------------------------
(* Steps of a forwarding task.                                              *)

\* stream.get_mut().shutdown().await of the task spawned for an empty list
ShutdownOnly(i) ==
    /\ tasks[i].pc = "shutdown_only"
    /\ \E r \in {"ok", "err"} : EndTask(i, r)
    /\ UNCHANGED <<ctx, permits, log, fresh>>
    /\ UNCHANGED <<poolVars, keyring>>

\* peer_addr, local_addr, lookup_host(..).await?.next().unwrap()
Lookup(i) ==
    /\ tasks[i].pc = "lookup"
    /\ \/ EnterPhase(i, "connect") /\ last' = Other
       \/ EndTask(i, "err") /\ UNCHANGED permits        \* an address or lookup error
       \/ EndTask(i, "panic") /\ UNCHANGED permits      \* no address: unwrap of None
    /\ UNCHANGED <<ctx, log, fresh>>
    /\ UNCHANGED <<poolVars, keyring>>

\* TcpSocket::new_v4/new_v6()?  and  sock.connect(resolved).await?
Connect(i) ==
    /\ tasks[i].pc = "connect"
    /\ \/ EnterPhase(i, AfterConnect(tasks[i])) /\ last' = Other
       \/ EndTask(i, "err") /\ UNCHANGED permits
    /\ UNCHANGED <<ctx, log, fresh>>
    /\ UNCHANGED <<poolVars, keyring>>

\* acceptor.accept(stream).await?
TlsAccept(i) ==
    /\ tasks[i].pc = "tls_accept"
    /\ \/ EnterPhase(i, AfterTlsAccept(tasks[i])) /\ last' = Other
       \/ EndTask(i, "err") /\ UNCHANGED permits
    /\ UNCHANGED <<ctx, log, fresh>>
    /\ UNCHANGED <<poolVars, keyring>>

\* tls.connect(conn.name, out).await?
TlsConnect(i) ==
    /\ tasks[i].pc = "tls_connect"
    /\ \/ EnterPhase(i, "copy") /\ last' = Other
       \/ EndTask(i, "err") /\ UNCHANGED permits
    /\ UNCHANGED <<ctx, log, fresh>>
    /\ UNCHANGED <<poolVars, keyring>>

\* a poll of select! in which copy_bidirectional moves bytes and stays pending,
\* and the Notified future is pending too
CopyBatch(i) ==
    /\ tasks[i].pc = "copy"
    /\ ~tasks[i].notified
    /\ last' = [op |-> "copy_batch", task |-> i]
    /\ UNCHANGED <<ctx, tasks, permits, log, fresh>>
    /\ UNCHANGED <<poolVars, keyring>>

\* a poll of select! that completes: copy_bidirectional returned (EOF or an
\* error), or the Notified future is complete
CopyEnd(i) ==
    /\ tasks[i].pc = "copy"
    /\ \E cause \in {"eof", "error", "stop"} :
        /\ cause = "stop" => tasks[i].notified
        /\ tasks' = [tasks EXCEPT ![i] =
                        [@ EXCEPT !.pc = "shutdown_in", !.notified = FALSE,
                                  !.reset_in = {}]]
        /\ last' = [op |-> "copy_end", task |-> i, cause |-> cause,
                    reset_in |-> tasks[i].reset_in]
    /\ UNCHANGED <<ctx, permits, log, fresh>>
    /\ UNCHANGED <<poolVars, keyring>>

\* stream.shutdown().await?
ShutdownIn(i) ==
    /\ tasks[i].pc = "shutdown_in"
    /\ \/ /\ tasks' = [tasks EXCEPT ![i].pc = "shutdown_out"]
          /\ last' = Other
       \/ EndTask(i, "err")
    /\ UNCHANGED <<ctx, permits, log, fresh>>
    /\ UNCHANGED <<poolVars, keyring>>

\* out.shutdown().await?  and  Ok(())
ShutdownOut(i) ==
    /\ tasks[i].pc = "shutdown_out"
    /\ \E r \in {"ok", "err"} : EndTask(i, r)
    /\ UNCHANGED <<ctx, permits, log, fresh>>
    /\ UNCHANGED <<poolVars, keyring>>

TaskStep ==
    \E i \in Slots :
        \/ ShutdownOnly(i)
        \/ Lookup(i)
        \/ Connect(i)
        \/ TlsAccept(i)
        \/ TlsConnect(i)
        \/ CopyBatch(i)
        \/ CopyEnd(i)
        \/ ShutdownIn(i)
        \/ ShutdownOut(i)

\* a spawned task seen from the port context only: it has run to its end
TaskExit ==
    \E i \in Slots :
        /\ tasks[i].pc # "idle"
        /\ tasks' = [tasks EXCEPT ![i] = Idle]
        /\ last' = Other
        /\ UNCHANGED <<ctx, permits, log, fresh>>
        /\ UNCHANGED <<poolVars, keyring>>

----------------------------------------------------------------------------
(* The listener pool and the keyring at rest.                               *)

PoolIdle ==
    /\ ports = <<>>
    /\ listeners = <<>>
    /\ http_challenges = FALSE
    /\ os = {}
    /\ keyring = {}

InitPort ==
    /\ \E e \in Entries :
        /\ New(e, 0).ok
        /\ ctx = New(e, 0).v
    /\ tasks = [i \in Slots |-> Idle]
    /\ permits = {}
    /\ log = <<>>
    /\ fresh = TRUE
    /\ last = Other
    /\ PoolIdle

\* the port context and its operations; forwarders are followed from spawn to exit
NextPort ==
    \/ Setup
    \/ Refresh
    \/ Apply
    \/ Reset
    \/ StartProxyEmpty
    \/ StartProxy
    \/ TaskExit

SpecPort == InitPort /\ [][NextPort]_vars

\* the port context with its forwarders followed step by step
NextForward ==
    \/ Setup
    \/ Refresh
    \/ Apply
    \/ Reset
    \/ StartProxyEmpty
    \/ (ctx.round_robin_counter < FwdConns /\ StartProxy)
    \/ TaskStep

SpecForward == InitPort /\ [][NextForward]_vars

\* the context with the events of the listener pool, and its first connection
NextStatus ==
    \/ Event
    \/ Setup
    \/ Refresh
    \/ Apply
    \/ Reset
    \/ StartProxyEmpty
    \/ (ctx.round_robin_counter = 0 /\ StartProxy)
    \/ TaskExit

SpecStatus == InitPort /\ [][NextStatus]_vars

----------------------------------------------------------------------------
(* The listener pool (taxy/src/server/listener.rs).  A port context is seen *)
(* through what update() reads and writes: its kind, its listen address and *)
(* the socket state its event() stores.  A listener is                      *)
(* [index, inner], inner being the bound socket, known by its              *)
(* local_addr().  What the latest update() did to the sockets is recorded   *)
(* in last: the addresses bound before it (before) and those of the sockets *)
(* it took over instead of binding them (kept).                             *)

RESERVED_ADDR == SocketAddr("0.0.0.0", 80)

Addr7001 == SocketAddr("127.0.0.1", 7001)
Addr7002 == SocketAddr("127.0.0.1", 7002)
Addr7003 == SocketAddr("127.0.0.1", 7003)
Local80 == SocketAddr("127.0.0.1", 80)

\* the ports on which the environment can make bind() fail
FaultPorts == {RESERVED_ADDR.port, Addr7001.port, Addr7002.port, Addr7003.port}

\* the io::ErrorKind of a failing bind() on each address of the model: the
\* privileged port is denied, 7001 is bound out-of-band, 7002 is given no
\* local address, 7003 fails with another error
BindError(addr) ==
    CASE addr.port = RESERVED_ADDR.port -> "PermissionDenied"
      [] addr = Addr7001 -> "AddrInUse"
      [] addr = Addr7002 -> "AddrNotAvailable"
      [] OTHER -> "Other"

PortCtx(kind, listen) == [kind |-> kind, listen |-> listen, socket |-> "Unknown"]

\* PortContext::reserved(): a context that is neither Tcp nor Http
reserved == PortCtx("Reserved", SocketAddr("", 0))

\* the contexts a port vector is made of
CtxPool ==
    { PortCtx("Tcp", Addr7001), PortCtx("Tcp", Addr7002), PortCtx("Tcp", Addr7003),
      PortCtx("Http", Local80) }

Configs == UNION {[1..n -> CtxPool] : n \in 0..MaxPorts}

\* an event that is not delivered
PortEvent_drop(c, state) == c

\* ctx.event(SocketStateUpadted(state)): the stored socket state
PortEvent(c, state) == [c EXCEPT !.socket = state]

\* port_used, with the port of the listen address ignored
port_used_never(ps) == FALSE

\* update(): does a configured context listen on the reserved port
port_used(ps) ==
    \E k \in 1..Len(ps) :
        /\ ps[k].kind \in {"Tcp", "Http"}
        /\ ps[k].listen.port = RESERVED_ADDR.port

\* update(): reserved_ports
reserved_ports(ps, challenges) ==
    IF challenges /\ ~port_used(ps) THEN <<reserved>> ELSE <<>>

\* update(): used_addrs, the listen addresses of the Tcp and Http contexts
used_addrs(all) ==
    {all[k].listen : k \in {j \in 1..Len(all) : all[j].kind \in {"Tcp", "Http"}}}

\* update(): the address a context is bound to
BindAddr(c) == IF c.kind \in {"Tcp", "Http"} THEN c.listen ELSE RESERVED_ADDR

\* the retained listeners: self.listeners drained into a map keyed by
\* local_addr(), keeping the used addresses; the others are dropped (closed)
Retained(ls, used) == {ls[k] : k \in {j \in 1..Len(ls) : ls[j].inner.addr \in used}}

Socks(ls) == {ls[k].inner : k \in 1..Len(ls)}

\* a bind that shares an address with the open sockets
Bind_reuse(addr, live, env) ==
    IF addr.port \in env THEN BindError(addr) ELSE "Ok"

\* TcpListener::bind(addr) while the sockets `live` are open: Ok or ErrorKind
Bind(addr, live, env) ==
    IF addr \in {s.addr : s \in live} THEN "AddrInUse"
    ELSE IF addr.port \in env THEN BindError(addr)
    ELSE "Ok"

\* a failing bind reported as Error whatever its kind
SocketStateOf_flat(kind) == "Error"

\* update(): the socket state of a failed bind
SocketStateOf(kind) ==
    CASE kind = "AddrInUse" -> "PortAlreadyInUse"
      [] kind = "PermissionDenied" -> "PermissionDenied"
      [] kind = "AddrNotAvailable" -> "AddressNotAvailable"
      [] OTHER -> "Error"

\* a lookup that leaves the listener in the map
Remove_peek(map, l) == map

\* update(): listeners.remove(&bind) takes the listener out of the map
Remove(map, l) == map \ {l}

\* the index left as it was
SetIndex_stale(l, index) == l

\* update(): sock.index = index
SetIndex(l, index) == [l EXCEPT !.index = index]

\* the kind and listen address of each context of a port vector
Contexts(ps) == [k \in 1..Len(ps) |-> [kind |-> ps[k].kind, listen |-> ps[k].listen]]

RECURSIVE UpdateLoop(_, _, _, _, _, _)
\* update(): the loop over ports.chain(reserved_ports).enumerate(), from
\* position k on; map holds the retained listeners not yet claimed, out the
\* listeners pushed so far, done the contexts already notified and kept the
\* addresses of the listeners taken from the map
UpdateLoop(k, all, map, out, done, kept) ==
    IF k > Len(all) THEN [listeners |-> out, ctxs |-> done, kept |-> kept]
    ELSE
        LET c == all[k]
            bind == BindAddr(c)
            found == {l \in map : l.inner.addr = bind}
            live == {l.inner : l \in map} \cup Socks(out)
            res == Bind(bind, live, os)
        IN  IF found # {}
            THEN LET l == CHOOSE x \in found : TRUE
                 IN  UpdateLoop(k + 1, all, Remove(map, l),
                                Append(out, SetIndex(l, k - 1)),
                                Append(done, PortEvent(c, "Listening")),
                                kept \cup {bind})
            ELSE IF res = "Ok"
            THEN UpdateLoop(k + 1, all, map,
                            Append(out, SetIndex([index |-> 0,
                                                  inner |-> [addr |-> bind]],
                                                 k - 1)),
                            Append(done, PortEvent(c, "Listening")), kept)
            ELSE UpdateLoop(k + 1, all, map, out,
                            Append(done, PortEvent(c, SocketStateOf(res))), kept)

\* TcpListenerPool::update(ps); the listeners left in the map when the loop
\* ends are dropped with it
update(ps) ==
    LET extra == reserved_ports(ps, http_challenges)
        all == ps \o extra
        map == Retained(listeners, used_addrs(all))
        r == UpdateLoop(1, all, map, <<>>, <<>>, {})
    IN  [listeners |-> r.listeners,
         ports |-> SubSeq(r.ctxs, 1, Len(ps)),
         kept |-> r.kept]

\* update(ports) on the current vector, or on a vector of new contexts
Update ==
    \E ps \in {ports} \cup Configs :
        \E r \in {update(ps)} :
            /\ listeners' = r.listeners
            /\ ports' = r.ports
            /\ last' = [op |-> "update",
                        before |-> {s.addr : s \in Socks(listeners)},
                        kept |-> r.kept,
                        again |-> last.op = "update"
                                  /\ Contexts(ps) = Contexts(ports)]
            /\ UNCHANGED <<http_challenges, os>>
            /\ UNCHANGED <<portVars, keyring>>

\* set_http_challenges(enabled)
SetHttpChallenges ==
    /\ \E enabled \in BOOLEAN : http_challenges' = enabled
    /\ last' = Other
    /\ UNCHANGED <<ports, listeners, os>>
    /\ UNCHANGED <<portVars, keyring>>

\* the environment: binding a port starts or stops failing
OsChange ==
    /\ \E a \in FaultPorts :
          /\ os' = IF a \in os THEN os \ {a} ELSE os \cup {a}
          /\ Cardinality(os') <= MaxFaults
    /\ last' = Other
    /\ UNCHANGED <<ports, listeners, http_challenges>>
    /\ UNCHANGED <<portVars, keyring>>

\* TcpListenerPool::new(), with no port context and nothing failing
InitPool ==
    /\ PoolIdle
    /\ ctx = New(PortEntry(Listen1, <<>>, FALSE), 0).v
    /\ tasks = [i \in Slots |-> Idle]
    /\ permits = {}
    /\ log = <<>>
    /\ fresh = TRUE
    /\ last = Other

NextPool ==
    \/ Update
    \/ SetHttpChallenges
    \/ OsChange

SpecPool == InitPool /\ [][NextPool]_vars

----------------------------------------------------------------------------
(* Accepting connections: select() and TcpListenerStream::poll_next.  Which *)
(* listener is ready first, and whether its accept succeeds, is up to the   *)
(* peers and the kernel.  An accepted stream is known by the address it was *)
(* accepted on.                                                             *)

\* a stream that reports the position of the first context
poll_next_zero(l, accept) ==
    [index |-> 0,
     res |-> IF accept = "Ok" THEN Ok([local |-> l.inner.addr]) ELSE Err("io")]

\* TcpListenerStream::poll_next when poll_accept is ready with `accept`
poll_next(l, accept) ==
    [index |-> l.index,
     res |-> IF accept = "Ok" THEN Ok([local |-> l.inner.addr]) ELSE Err("io")]

\* an accept error passed on as if it were a connection
SelectResult_any(item) ==
    IF item.some
    THEN Some(<<item.v.index,
                IF item.v.res.ok THEN item.v.res.v ELSE [local |-> SocketAddr("", 0)]>>)
    ELSE None

\* select(): the match on the first item of select_all(streams)
SelectResult(item) ==
    IF item.some /\ item.v.res.ok
    THEN Some(<<item.v.index, item.v.res.v>>)
    ELSE None

\* select(): select_all over no stream ends at once; otherwise it waits for
\* the first listener that is ready
Select ==
    /\ \/ /\ listeners = <<>>
          /\ last' = [op |-> "select", accept |-> "None",
                      result |-> SelectResult(None)]
       \/ \E k \in 1..Len(listeners), accept \in {"Ok", "Err"} :
             last' = [op |-> "select", accept |-> accept,
                      result |-> SelectResult(Some(poll_next(listeners[k], accept)))]
    /\ UNCHANGED <<ports, listeners, http_challenges, os>>
    /\ UNCHANGED <<portVars, keyring>>

\* the pool with its accept loop; only port 7001 is made to fail
NextSelect ==
    \/ Update
    \/ SetHttpChallenges
    \/ OsChange /\ os' \subseteq {Addr7001.port}
    \/ Select

SpecSelect == InitPool /\ [][NextSelect]_vars

----------------------------------------------------------------------------
(* Round-robin selection and apply (SpecPort).                              *)

\* the live forwarding tasks
Forwarders == {i \in Slots : tasks[i].pc \notin {"idle", "shutdown_only"}}

\* C1: on a freshly constructed context with n >= 1 upstreams, the i-th
\* start_proxy call (i = 0, 1, ...) forwards to servers[i mod n]; with the
\* upstreams A, B, C six calls reach A, B, C, A, B, C in that order.
C1_RoundRobinOrder ==
    fresh =>
        /\ \A k \in 1..Len(log) :
              log[k].conn = ctx.servers[((k - 1) % Len(ctx.servers)) + 1]
        /\ (ctx.servers = <<ConnA, ConnB, ConnC>> /\ Len(log) = 6) =>
              [k \in 1..6 |-> log[k].conn] =
                  <<ConnA, ConnB, ConnC, ConnA, ConnB, ConnC>>

C1_Witness ==
    /\ fresh
    /\ ctx.servers = <<ConnA, ConnB, ConnC>>
    /\ Len(log) = 6

\* C2: while the list of n >= 1 upstreams does not change, every run of k*n
\* consecutive start_proxy calls selects each upstream exactly k times.
C2_RoundRobinFair ==
    LET n == Len(ctx.servers)
    IN  \A a \in 1..Len(log), k \in 1..MaxConns :
            (a + k * n - 1 <= Len(log)) =>
                \A j \in 0..(n - 1) :
                    Cardinality({m \in a..(a + k * n - 1) : log[m].index = j}) = k

\* a run of two rounds over two upstreams that starts in the middle of a round,
\* after an apply
C2_Witness ==
    /\ ~fresh
    /\ Len(ctx.servers) = 2
    /\ Len(log) >= 4
    /\ log[1].index = 1

\* C3: apply(new) keeps round_robin_counter and the stop notifier and takes
\* every other field from new; every live forwarder, spawned before or after
\* the apply, holds the context's stop notifier.
C3_ApplyFrame ==
    /\ last.op = "apply" =>
          /\ ctx.round_robin_counter = last.round_robin_counter
          /\ ctx.stop_notifier = last.stop_notifier
          /\ ctx.listen = last.new.listen
          /\ ctx.servers = last.new.servers
          /\ ctx.status = last.new.status
          /\ ctx.tls_termination = last.new.tls_termination
          /\ ctx.tls_client_config = last.new.tls_client_config
    /\ \A i \in Forwarders : tasks[i].stop_notifier = ctx.stop_notifier

\* an apply on a context that has served connections, one forwarder still
\* running, with a new context that differs in every field
C3_Witness ==
    /\ last.op = "apply"
    /\ ctx.round_robin_counter > 1
    /\ last.new.stop_notifier # ctx.stop_notifier
    /\ last.new.tls_client_config
    /\ Forwarders # {}

----------------------------------------------------------------------------
(* reset() and the forwarders (SpecForward).                                *)

\* C4: after reset(), every forwarder that was in its copy phase has its stop
\* signal delivered, copies no further batch and leaves the copy phase at its
\* next poll; this includes forwarders spawned before an earlier apply.
C4_ResetStopsCopying ==
    /\ \A i \in Slots : "copy" \in tasks[i].reset_in => tasks[i].notified
    /\ last.op = "copy_batch" => "copy" \notin tasks[last.task].reset_in
    /\ last.op = "reset" =>
          \A i \in Slots : tasks[i].pc = "copy" => tasks[i].notified

\* reset() reaches a copying forwarder of a context that has no upstream any
\* more: the forwarder was spawned before the apply that emptied the list
C4_Witness ==
    /\ last.op = "reset"
    /\ ctx.servers = <<>>
    /\ \E i \in Slots : tasks[i].pc = "copy" /\ tasks[i].notified

\* C5: a forwarder that was still in its handshakes when reset() was called
\* is stopped by that reset: once in its copy phase its stop signal is set.
C5_ResetStopsHandshaking ==
    \A i \in Slots :
        (tasks[i].pc = "copy" /\ "handshake" \in tasks[i].reset_in) =>
            tasks[i].notified

\* C6: a forwarder is stopped only by a reset() called during its own copy
\* phase: one spawned after reset() returned is not stopped by that reset, and
\* its copy phase ends by EOF, a copy error or a later reset.
C6_ResetNotRetroactive ==
    /\ \A i \in Slots : tasks[i].notified => "copy" \in tasks[i].reset_in
    /\ last.op = "copy_end" =>
          \/ last.cause \in {"eof", "error"}
          \/ last.cause = "stop" /\ "copy" \in last.reset_in

\* a forwarder spawned right after a reset() is in its copy phase, not stopped
C6_Witness ==
    /\ last.op = "copy_batch"
    /\ tasks[last.task].reset_in = {"before"}
    /\ ~tasks[last.task].notified

----------------------------------------------------------------------------
(* Reconciliation of the listener pool (SpecPool). *)

\* the addresses the pool is bound to
BoundAddrs == {s.addr : s \in Socks(listeners)}

\* does a configured context listen on port 80
ListensOn80 == \E k \in 1..Len(ports) : ports[k].listen.port = 80

\* the desired addresses of an update(): the listen address of every port
\* context, and 0.0.0.0:80 when HTTP-01 challenges are enabled and no
\* configured context listens on port 80
DesiredAddrs ==
    {ports[k].listen : k \in 1..Len(ports)}
        \cup (IF http_challenges /\ ~ListensOn80 THEN {SocketAddr("0.0.0.0", 80)} ELSE {})

\* the listeners of the synthetic reserved context, which comes after the
\* configured ones
ReservedListeners == {k \in 1..Len(listeners) : listeners[k].index >= Len(ports)}

\* C7: update(ports) closes exactly the previously bound listeners whose
\* address is not desired any more, keeps every previously bound listener
\* whose address is still desired as the same socket, and binds a new socket
\* only for a desired address that had no listener; after {:7001, :7002} is
\* replaced by {:7001, :7003}, only :7002 is closed, only :7003 is opened and
\* :7001 is preserved.
C7_ReconcileSockets ==
    last.op = "update" =>
        /\ last.kept \subseteq last.before \cap BoundAddrs
        /\ \A a \in last.before : a \in last.kept <=> a \in DesiredAddrs
        /\ \A a \in BoundAddrs \ last.kept : a \in DesiredAddrs /\ a \notin last.before
        /\ ( /\ last.before = {Addr7001, Addr7002}
             /\ [k \in 1..Len(ports) |-> ports[k].listen] = <<Addr7001, Addr7003>>
             /\ ~http_challenges /\ os = {} )
           => /\ last.kept = {Addr7001}
              /\ BoundAddrs = {Addr7001, Addr7003}

\* C7 for the listeners of the configured contexts alone: the reserved
\* address is left out of what is compared
C7_ReconcileConfigured ==
    last.op = "update" =>
        LET Configured == {ports[k].listen : k \in 1..Len(ports)}
            before == last.before \ {RESERVED_ADDR}
            after == BoundAddrs \ {RESERVED_ADDR}
        IN  /\ \A a \in before : a \in last.kept <=> a \in Configured
            /\ \A a \in after \ last.kept : a \in Configured /\ a \notin before
            /\ ( /\ before = {Addr7001, Addr7002}
                 /\ [k \in 1..Len(ports) |-> ports[k].listen] = <<Addr7001, Addr7003>>
                 /\ os = {} )
               => /\ last.kept = {Addr7001}
                  /\ after = {Addr7001, Addr7003}

C7_ConfiguredWitness ==
    /\ last.op = "update"
    /\ last.before = {Addr7001, Addr7002}
    /\ [k \in 1..Len(ports) |-> ports[k].listen] = <<Addr7001, Addr7003>>
    /\ BoundAddrs = {Addr7001, Addr7003}

\* C8: while HTTP-01 challenges are enabled and no configured context uses
\* port 80, a reserved listener that is already bound is retained by
\* update() as the same socket, neither closed nor bound again.
C8_ReservedRetained ==
    ( /\ last.op = "update"
      /\ http_challenges
      /\ ~ListensOn80
      /\ SocketAddr("0.0.0.0", 80) \in last.before )
    => SocketAddr("0.0.0.0", 80) \in last.kept

\* C9: after update() the pool holds a listener on 0.0.0.0:80 for the
\* synthetic reserved context exactly when HTTP-01 challenges are enabled,
\* no configured context listens on port 80 and the bind succeeded; when
\* challenges are disabled or a configured context listens on port 80, no
\* reserved listener remains.
C9_ReservedListener ==
    last.op = "update" =>
        /\ \A k \in ReservedListeners :
              /\ listeners[k].index = Len(ports)
              /\ listeners[k].inner.addr = SocketAddr("0.0.0.0", 80)
        /\ Cardinality(ReservedListeners) <= 1
        /\ ReservedListeners # {} <=>
              (http_challenges /\ ~ListensOn80 /\ 80 \notin os)
        /\ (~http_challenges \/ ListensOn80) =>
              SocketAddr("0.0.0.0", 80) \notin BoundAddrs

C9_Witness ==
    /\ last.op = "update"
    /\ Len(ports) = 2
    /\ \E k \in ReservedListeners : listeners[k].index = 2
    /\ ports[1].socket = "Listening"

\* a reserved listener that update() closed because a configured context
\* listens on port 80
C9_ClosedWitness ==
    /\ last.op = "update"
    /\ http_challenges /\ ListensOn80
    /\ SocketAddr("0.0.0.0", 80) \in last.before
    /\ ReservedListeners = {}

\* C10: a bind failure is mapped to the socket state of its own context
\* (AddrInUse to PortAlreadyInUse, PermissionDenied to PermissionDenied,
\* AddrNotAvailable to AddressNotAvailable, any other error to Error), and
\* every other context whose address is retained or binds is Listening:
\* update() goes on with the remaining contexts.
C10_BindFailureContained ==
    last.op = "update" =>
        \A i \in 1..Len(ports) :
            LET a == ports[i].listen
                earlier == \E j \in 1..(i - 1) : ports[j].listen = a
                free == a \in last.before \/ a.port \notin os
                failed == CASE a.port = 80 -> "PermissionDenied"
                            [] a.port = 7001 -> "PortAlreadyInUse"
                            [] a.port = 7002 -> "AddressNotAvailable"
                            [] OTHER -> "Error"
            IN  ports[i].socket =
                    IF free THEN (IF earlier THEN "PortAlreadyInUse" ELSE "Listening")
                    ELSE failed

C10_Witness ==
    /\ last.op = "update"
    /\ Len(ports) = 2
    /\ ports[1].socket \in {"PermissionDenied", "AddressNotAvailable", "Error"}
    /\ ports[2].socket = "Listening"
    /\ \E k \in 1..Len(listeners) : listeners[k].index = 1

\* C11: after update() every listener carries the position, in the
\* iteration over the configured contexts followed by the reserved one, of
\* a context whose address it is bound to; no two listeners share an index,
\* and this holds for retained listeners too, wherever their context now is.
C11_ListenerIndex ==
    last.op = "update" =>
        /\ \A k \in 1..Len(listeners) :
              LET i == listeners[k].index
                  a == listeners[k].inner.addr
              IN  \/ i < Len(ports) /\ ports[i + 1].listen = a
                  \/ /\ i = Len(ports)
                     /\ http_challenges /\ ~ListensOn80
                     /\ a = SocketAddr("0.0.0.0", 80)
        /\ \A j, k \in 1..Len(listeners) :
              listeners[j].index = listeners[k].index => j = k

C11_Witness ==
    /\ last.op = "update"
    /\ last.kept = {Addr7001, Addr7002}
    /\ Len(listeners) = 3
    /\ \E k \in 1..Len(listeners) :
          listeners[k].index = 0 /\ listeners[k].inner.addr = Addr7002
    /\ \E k \in 1..Len(listeners) :
          listeners[k].index = 1 /\ listeners[k].inner.addr = Addr7001

\* the index -> address mapping of the pool
IndexMap == {<<listeners[k].index, listeners[k].inner.addr>> : k \in 1..Len(listeners)}

\* C12: update(ports) called twice in a row on unchanged ports, nothing
\* having changed outside, leaves after the second call the bound addresses,
\* the index -> address mapping and the socket state of every context as
\* they were after the first.
C12_UpdateIdempotent ==
    [][ (last'.op = "update" /\ last'.again) =>
            /\ {listeners'[k].inner.addr : k \in 1..Len(listeners')} = BoundAddrs
            /\ {<<listeners'[k].index, listeners'[k].inner.addr>> :
                    k \in 1..Len(listeners')} = IndexMap
            /\ [k \in 1..Len(ports') |-> ports'[k].socket]
                   = [k \in 1..Len(ports) |-> ports[k].socket] ]_vars

C12_Witness ==
    /\ last.op = "update"
    /\ last.again
    /\ Len(ports) = 2
    /\ ports[1].listen = ports[2].listen
    /\ ports[2].socket = "PortAlreadyInUse"
    /\ SocketAddr("0.0.0.0", 80) \in BoundAddrs

----------------------------------------------------------------------------
(* The accept loop (SpecSelect). *)

\* C13: select() yields a connection for a port context only after update()
\* has delivered the SocketStateUpdated event of that context's latest
\* reconciliation: the context a connection is dispatched to is Listening,
\* on the address the connection was accepted on.
C13_SelectAfterEvent ==
    (last.op = "select" /\ last.result.some) =>
        LET i == last.result.v[1]
            stream == last.result.v[2]
        IN  /\ i <= Len(ports)
            /\ i < Len(ports) =>
                  /\ ports[i + 1].socket = "Listening"
                  /\ ports[i + 1].listen = stream.local
            /\ i = Len(ports) => stream.local = SocketAddr("0.0.0.0", 80)

C13_Witness ==
    /\ last.op = "select"
    /\ last.result.some
    /\ last.result.v[1] = 1
    /\ Len(ports) = 2
    /\ ports[1].socket = "PortAlreadyInUse"

\* C14: select() returns Some((index, stream)) for the first listener ready
\* with a successful accept, and None when that first ready accept is an
\* error; either way the listeners of the pool are unchanged.
C14_SelectResult ==
    [][ last'.op = "select" =>
            /\ listeners' = listeners
            /\ last'.accept = "Ok" =>
                  /\ last'.result.some
                  /\ \E k \in 1..Len(listeners) :
                        /\ last'.result.v[1] = listeners[k].index
                        /\ last'.result.v[2].local = listeners[k].inner.addr
            /\ last'.accept = "Err" => ~last'.result.some ]_vars

C14_Witness ==
    /\ last.op = "select"
    /\ last.accept = "Err"
    /\ ~last.result.some
    /\ Len(listeners) = 2

----------------------------------------------------------------------------
(* Socket state of a port context (SpecStatus). *)

\* C15: event(SocketStateUpdated(s)) sets started_at to the current time
\* when the stored state is not Listening and s is, clears it when the
\* stored state is Listening and s is not, leaves it unchanged when s is the
\* stored state, and always stores s.
C15_EventStartedAt ==
    [][ last'.op = "event" =>
            LET old == ctx.status
                new == ctx'.status
                s == last'.state
            IN  /\ new.socket = s
                /\ (old.socket # "Listening" /\ s = "Listening")
                      => new.started_at = Some(last'.now)
                /\ (old.socket = "Listening" /\ s # "Listening")
                      => new.started_at = None
                /\ s = old.socket => new.started_at = old.started_at
                /\ new.tls = old.tls ]_vars

C15_Witness ==
    /\ last.op = "event"
    /\ last.state = "Listening"
    /\ ctx.status.socket = "Listening"
    /\ ctx.status.started_at.some
    /\ ctx.status.started_at.v < last.now

\* C16: the socket state and started_at of a port context change only in
\* event(SocketStateUpdated): setup, refresh, apply, reset and start_proxy
\* leave them unchanged.
C16_SocketStateFrame ==
    [][ last'.op # "event" =>
            /\ ctx'.status.socket = ctx.status.socket
            /\ ctx'.status.started_at = ctx.status.started_at ]_vars

\* C16 for every operation but apply
C16_FrameButApply ==
    [][ last'.op \notin {"event", "apply"} =>
            /\ ctx'.status.socket = ctx.status.socket
            /\ ctx'.status.started_at = ctx.status.started_at ]_vars

----------------------------------------------------------------------------
(* Certificates (taxy/src/keyring/certs.rs).  A fingerprint is a string of  *)
(* hex digits, here two digits out of 0..MaxDigit; the identifier is a      *)
(* proper prefix of it (its first digit here, 20 characters of 64 in the    *)
(* code).  The validity window is read from the leaf, so it is a function   *)
(* of the fingerprint; the metadata is read from the comment line of the    *)
(* chain and is free.                                                       *)

Digits == 0..MaxDigit

Fingerprints == [1..2 -> Digits]

\* Cert::new: id = fingerprint[..CERT_ID_LENGTH]
CertId(fingerprint) == SubSeq(fingerprint, 1, 1)

\* the validity window of the leaf with this fingerprint
LeafNotBefore(fp) == 1 + ((fp[1] * fp[2]) % 2)
LeafNotAfter(fp) == 3 + ((fp[1] + fp[2]) % 2)

\* CertMetadata, as far as the order looks at it
Metadatas == {None, Some([is_trusted |-> FALSE]), Some([is_trusted |-> TRUE])}

\* Cert::new(raw_chain, raw_key)
Cert(fp, metadata) ==
    [id |-> CertId(fp), fingerprint |-> fp,
     not_before |-> LeafNotBefore(fp), not_after |-> LeafNotAfter(fp),
     metadata |-> metadata]

Certs == {Cert(fp, m) : fp \in Fingerprints, m \in Metadatas}

\* impl PartialEq for Cert
CertEq(a, b) == a.fingerprint = b.fingerprint

\* Ord for bool and for integers
OrdCmp(x, y) == IF x < y THEN "Less" ELSE IF x = y THEN "Equal" ELSE "Greater"

BoolCmp(x, y) == OrdCmp(IF x THEN 1 ELSE 0, IF y THEN 1 ELSE 0)

RECURSIVE StrCmp(_, _)
\* Ord for String: lexicographic
StrCmp(x, y) ==
    IF x = <<>> THEN (IF y = <<>> THEN "Equal" ELSE "Less")
    ELSE IF y = <<>> THEN "Greater"
    ELSE IF Head(x) # Head(y) THEN OrdCmp(Head(x), Head(y))
    ELSE StrCmp(Tail(x), Tail(y))

\* Ordering::then_with
then_with(o, next) == IF o = "Equal" THEN next ELSE o

\* metadata.as_ref().map(|meta| meta.is_trusted).unwrap_or_default()
is_trusted(c) == c.metadata.some /\ c.metadata.v.is_trusted

\* the order with not_after inverted as not_before is
partial_cmp_longer(self, other) ==
    then_with(BoolCmp(is_trusted(other), is_trusted(self)),
    then_with(OrdCmp(other.not_before, self.not_before),
    then_with(OrdCmp(other.not_after, self.not_after),
              StrCmp(self.fingerprint, other.fingerprint))))

\* impl PartialOrd for Cert (Ord::cmp unwraps it)
partial_cmp(self, other) ==
    then_with(BoolCmp(is_trusted(other), is_trusted(self)),
    then_with(OrdCmp(other.not_before, self.not_before),
    then_with(OrdCmp(self.not_after, other.not_after),
              StrCmp(self.fingerprint, other.fingerprint))))

RECURSIVE sort(_)
\* slice::sort of certificates no two of which compare Equal: the least
\* first, whatever the order the map yields them in
sort(S) ==
    IF S = {} THEN <<>>
    ELSE LET m == CHOOSE x \in S : \A y \in S \ {x} : partial_cmp(x, y) # "Greater"
         IN  <<m>> \o sort(S \ {m})

----------------------------------------------------------------------------
(* The keyring (taxy/src/keyring/mod.rs): a map from identifier to item,    *)
(* held as the set of its items.                                            *)

ServerCert(cert) == [kind |-> "ServerCert", id |-> cert.id, cert |-> cert]

\* an ACME entry; its identifier is no prefix of a fingerprint
Acme(n) == [kind |-> "Acme", id |-> <<MaxDigit + 1 + n>>]

Items == {ServerCert(c) : c \in Certs} \cup {Acme(0)}

\* HashMap::insert of an item under its id
add(K, item) == {i \in K : i.id # item.id} \cup {item}

\* a removal that looks the item up and leaves it in the map
delete_keep(K, id) ==
    [keyring |-> K,
     result |-> IF \E i \in K : i.id = id
                THEN Some(CHOOSE i \in K : i.id = id) ELSE None]

\* HashMap::remove(id)
delete(K, id) ==
    [keyring |-> {i \in K : i.id # id},
     result |-> IF \E i \in K : i.id = id
                THEN Some(CHOOSE i \in K : i.id = id) ELSE None]

\* certs sorted the other way round
certs_reverse(K) ==
    LET sorted == sort({i.cert : i \in {j \in K : j.kind = "ServerCert"}})
    IN  [k \in 1..Len(sorted) |-> sorted[Len(sorted) + 1 - k]]

\* Keyring::certs
certs(K) == sort({i.cert : i \in {j \in K : j.kind = "ServerCert"}})

KeyringAdd ==
    /\ \E item \in Items :
          /\ keyring' = add(keyring, item)
          /\ last' = [op |-> "add", item |-> item, before |-> keyring]
    /\ UNCHANGED <<portVars, poolVars>>

KeyringDelete ==
    /\ \E id \in {i.id : i \in Items} :
          LET r == delete(keyring, id)
          IN  /\ keyring' = r.keyring
              /\ last' = [op |-> "delete", id |-> id, result |-> r.result,
                          round_trip |-> /\ last.op = "add"
                                         /\ last.item.id = id
                                         /\ \A i \in last.before : i.id # id]
    /\ UNCHANGED <<portVars, poolVars>>

KeyringCerts ==
    /\ last' = [op |-> "certs", result |-> certs(keyring)]
    /\ UNCHANGED <<portVars, poolVars, keyring>>

\* cmp on two certificates, in the keyring or not
CertCmp ==
    /\ \E a \in Certs, b \in Certs :
          last' = [op |-> "cmp", a |-> a, b |-> b, result |-> partial_cmp(a, b)]
    /\ UNCHANGED <<portVars, poolVars, keyring>>

\* Keyring::default()
InitKeyring == InitPool

NextKeyring ==
    \/ KeyringAdd
    \/ KeyringDelete
    \/ KeyringCerts

SpecKeyring == InitKeyring /\ [][NextKeyring]_vars

\* the order alone, on every pair of certificates
SpecCmp == InitKeyring /\ [][CertCmp]_vars

----------------------------------------------------------------------------
(* The keyring and the order of certificates (SpecKeyring, SpecCmp). *)

\* C17: for any keyring state K and any item x, after add(x) the call
\* delete(x.id) returns Some(x) and leaves the keyring equal to K.
C17_RoundTrip ==
    [][ (last.op = "add" /\ last'.op = "delete" /\ last'.id = last.item.id) =>
            /\ last'.result = Some(last.item)
            /\ keyring' = last.before ]_vars

\* C17 as amended: for any keyring state K and any item x, after add(x) the
\* call delete(x.id) returns Some(x); the keyring after the two calls is K
\* without the item it held under x.id, hence K when it held none.
C17_RoundTripUpsert ==
    [][ (last.op = "add" /\ last'.op = "delete" /\ last'.id = last.item.id) =>
            /\ last'.result = Some(last.item)
            /\ keyring' = {i \in last.before : i.id # last.item.id}
            /\ (\A i \in last.before : i.id # last.item.id) => keyring' = last.before ]_vars

C17_Witness ==
    /\ last.op = "delete"
    /\ last.round_trip
    /\ last.result.some
    /\ last.result.v.kind = "ServerCert"
    /\ Cardinality(keyring) = 2

\* a comes before b in the order C18 states
C18_Before(a, b) ==
    \/ is_trusted(a) /\ ~is_trusted(b)
    \/ /\ is_trusted(a) = is_trusted(b)
       /\ \/ a.not_before > b.not_before
          \/ /\ a.not_before = b.not_before
             /\ \/ a.not_after < b.not_after
                \/ /\ a.not_after = b.not_after
                   /\ StrCmp(a.fingerprint, b.fingerprint) = "Greater"

\* C18: certs() returns exactly the server certificates of the keyring,
\* ordered so that a comes before b when a is trusted and b is not; else
\* when a has the later not_before; else when a has the earlier not_after;
\* else when a has the lexicographically larger fingerprint.
C18_CertsOrder ==
    last.op = "certs" =>
        /\ {last.result[k] : k \in 1..Len(last.result)}
               = {i.cert : i \in {j \in keyring : j.kind = "ServerCert"}}
        /\ Len(last.result) = Cardinality({j \in keyring : j.kind = "ServerCert"})
        /\ \A j, k \in 1..Len(last.result) :
              j < k => C18_Before(last.result[j], last.result[k])

\* a comes before b in the order of the code: as C18 states, but for the
\* smaller fingerprint, not the larger, coming first
C18_BeforeSmaller(a, b) ==
    \/ is_trusted(a) /\ ~is_trusted(b)
    \/ /\ is_trusted(a) = is_trusted(b)
       /\ \/ a.not_before > b.not_before
          \/ /\ a.not_before = b.not_before
             /\ \/ a.not_after < b.not_after
                \/ /\ a.not_after = b.not_after
                   /\ StrCmp(a.fingerprint, b.fingerprint) = "Less"

\* C18 as amended: certs() returns exactly the server certificates of the
\* keyring, ordered so that a comes before b when a is trusted and b is not;
\* else when a has the later not_before; else when a has the earlier
\* not_after; else when a has the lexicographically smaller fingerprint.
C18_CertsOrderSmaller ==
    last.op = "certs" =>
        /\ {last.result[k] : k \in 1..Len(last.result)}
               = {i.cert : i \in {j \in keyring : j.kind = "ServerCert"}}
        /\ Len(last.result) = Cardinality({j \in keyring : j.kind = "ServerCert"})
        /\ \A j, k \in 1..Len(last.result) :
              j < k => C18_BeforeSmaller(last.result[j], last.result[k])

C18_Witness ==
    /\ last.op = "certs"
    /\ Len(last.result) = 2
    /\ Cardinality(keyring) = 3
    /\ is_trusted(last.result[1]) = is_trusted(last.result[2])
    /\ last.result[1].not_before = last.result[2].not_before
    /\ last.result[1].not_after = last.result[2].not_after

\* C19: among certificates with equal is_trusted and equal not_before, the
\* one with the later not_after sorts earlier.
C19_PrefersLongerLived ==
    ( /\ last.op = "cmp"
      /\ is_trusted(last.a) = is_trusted(last.b)
      /\ last.a.not_before = last.b.not_before
      /\ last.a.not_after > last.b.not_after )
    => last.result = "Less"

\* C19 as amended: among certificates with equal is_trusted and equal
\* not_before, the one with the earlier not_after sorts earlier.
C19_PrefersShorterLived ==
    ( /\ last.op = "cmp"
      /\ is_trusted(last.a) = is_trusted(last.b)
      /\ last.a.not_before = last.b.not_before
      /\ last.a.not_after < last.b.not_after )
    => last.result = "Less"

C19_Witness ==
    /\ last.op = "cmp"
    /\ is_trusted(last.a) /\ is_trusted(last.b)
    /\ last.a.not_before = last.b.not_before
    /\ last.a.not_after < last.b.not_after
    /\ last.result = "Less"

Reversed(o) == IF o = "Less" THEN "Greater" ELSE IF o = "Greater" THEN "Less" ELSE o

\* the order is total and transitive, and cmp(b, a) reverses cmp(a, b)
TotalPreorder(a, b) ==
    /\ partial_cmp(a, b) \in {"Less", "Equal", "Greater"}
    /\ partial_cmp(b, a) = Reversed(partial_cmp(a, b))
    /\ \A c \in Certs :
          (partial_cmp(a, b) # "Greater" /\ partial_cmp(b, c) # "Greater")
              => partial_cmp(a, c) # "Greater"

\* C20: the order of certificates is total, antisymmetric and transitive,
\* cmp(a, b) is the reverse of cmp(b, a), and cmp(a, b) is Equal exactly
\* when a == b, that is when the fingerprints are equal, whatever the
\* metadata.
C20_OrderConsistentWithEq ==
    last.op = "cmp" =>
        /\ last.result = partial_cmp(last.a, last.b)
        /\ TotalPreorder(last.a, last.b)
        /\ (partial_cmp(last.a, last.b) # "Greater" /\ partial_cmp(last.b, last.a) # "Greater")
              => CertEq(last.a, last.b)
        /\ last.result = "Equal" <=> CertEq(last.a, last.b)

\* C20 without the agreement with ==
C20_TotalPreorder ==
    last.op = "cmp" => TotalPreorder(last.a, last.b)

\* ---------------------------------------------------------------------
\* Subject names (taxy_api::subject_name::SubjectName) and
\* Cert::has_subject_name (keyring/certs.rs)
\* ---------------------------------------------------------------------

\* a string is the sequence of its characters
Letters == {"a"}

Chars == Letters \cup {"."}

Strings == UNION {[1..n -> Chars] : n \in 0..MaxName}

\* a DNS name as parsing lets it through: no empty label
IsDnsName(s) ==
    /\ Len(s) > 0
    /\ s[1] # "."
    /\ s[Len(s)] # "."
    /\ \A i \in 1..(Len(s) - 1) : ~(s[i] = "." /\ s[i + 1] = ".")

DnsNames == {s \in Strings : IsDnsName(s)}

\* an address is the sequence of its octets, written out
IpAddrs == {<<"127", "0", "0", "1">>, <<"10", "0", "0", "1">>}

DnsName(s) == [kind |-> "DnsName", v |-> s]

\* the wildcard holds its suffix, the name after "*."
WildcardDnsName(s) == [kind |-> "WildcardDnsName", v |-> s]

IPAddress(ip) == [kind |-> "IPAddress", v |-> ip]

SubjectNames ==
    {DnsName(s) : s \in DnsNames} \cup {WildcardDnsName(s) : s \in DnsNames}
        \cup {IPAddress(ip) : ip \in IpAddrs}

\* str::trim_start_matches: drops the longest prefix of characters in pat
RECURSIVE trim_start_matches(_, _)
trim_start_matches(s, pat) ==
    IF s # <<>> /\ Head(s) \in pat THEN trim_start_matches(Tail(s), pat) ELSE s

SanMatches_suffix(san, name) ==
    IF san.kind = "DnsName" /\ name.kind = "DnsName" THEN san.v = name.v
    ELSE IF san.kind = "WildcardDnsName" /\ name.kind = "DnsName"
        THEN san.v = trim_start_matches(name.v, {"."})
                \/ san.v = trim_start_matches(
                       trim_start_matches(name.v, Chars \ {"."}), {"."})
    ELSE IF san.kind = "WildcardDnsName" /\ name.kind = "WildcardDnsName"
        THEN san.v = name.v
    ELSE IF san.kind = "IPAddress" /\ name.kind = "IPAddress" THEN san.v = name.v
    ELSE FALSE

\* the match of has_subject_name on one SAN of the certificate
SanMatches(san, name) ==
    IF san.kind = "DnsName" /\ name.kind = "DnsName" THEN san.v = name.v
    ELSE IF san.kind = "WildcardDnsName" /\ name.kind = "DnsName"
        THEN san.v = trim_start_matches(
                 trim_start_matches(name.v, Chars \ {"."}), {"."})
    ELSE IF san.kind = "WildcardDnsName" /\ name.kind = "WildcardDnsName"
        THEN san.v = name.v
    ELSE IF san.kind = "IPAddress" /\ name.kind = "IPAddress" THEN san.v = name.v
    ELSE FALSE

\* for san in &self.san { if match .. { return true } } false
RECURSIVE has_subject_name(_, _)
has_subject_name(san, name) ==
    IF san = <<>> THEN FALSE
    ELSE IF SanMatches(Head(san), name) THEN TRUE
    ELSE has_subject_name(Tail(san), name)

SanLists == UNION {[1..n -> SubjectNames] : n \in 0..MaxSan}

\* one call on one certificate; the certificate is immutable and the call
\* reads nothing else, so calls are taken one to a behaviour
HasSubjectName ==
    /\ last = Other
    /\ \E san \in SanLists, name \in SubjectNames :
          last' = [op |-> "has_subject_name", san |-> san, name |-> name,
                   result |-> has_subject_name(san, name)]
    /\ UNCHANGED <<portVars, poolVars, keyring>>

\* the SAN list of any certificate against any queried name
SpecSan == InitKeyring /\ [][HasSubjectName]_vars

\* the name left when exactly the first label and its dot are taken off
StripFirstLabel(s) ==
    IF \E i \in 1..Len(s) : s[i] = "."
    THEN LET k == Min({i \in 1..Len(s) : s[i] = "."}) IN SubSeq(s, k + 1, Len(s))
    ELSE <<>>

SniRule(s, n) ==
    \/ s.kind = "DnsName" /\ n.kind = "DnsName" /\ s.v = n.v
    \/ s.kind = "WildcardDnsName" /\ n.kind = "DnsName" /\ s.v = StripFirstLabel(n.v)
    \/ s.kind = "WildcardDnsName" /\ n.kind = "WildcardDnsName" /\ s.v = n.v
    \/ s.kind = "IPAddress" /\ n.kind = "IPAddress" /\ s.v = n.v

\* C21: has_subject_name(n) is true exactly when some SAN s of the
\* certificate and n are equal exact DNS names, or s is a wildcard and n an
\* exact DNS name whose remainder after its first label is the wildcard's
\* suffix, or s and n are wildcards with the same suffix, or s and n are
\* equal IP addresses; every other combination is false.
C21_HasSubjectName ==
    last.op = "has_subject_name" =>
        (last.result <=> \E i \in DOMAIN last.san : SniRule(last.san[i], last.name))

\* a wildcard SAN, placed second, matched a name of three labels; the same
\* wildcard refuses its own suffix as an exact name
C21_Witness ==
    /\ last.op = "has_subject_name"
    /\ Len(last.san) = 2
    /\ last.san[1].kind = "DnsName"
    /\ last.san[2].kind = "WildcardDnsName"
    /\ last.name.kind = "DnsName"
    /\ Len(StripFirstLabel(StripFirstLabel(last.name.v))) > 0
    /\ last.result
    /\ ~SanMatches(last.san[2], DnsName(last.san[2].v))

\* ---------------------------------------------------------------------
\* Cert::new_self_signed and the SAN list Cert::new reads back
\* ---------------------------------------------------------------------

\* Display of a subject name: a wildcard is written "*." and its suffix
to_string(name) ==
    IF name.kind = "WildcardDnsName" THEN <<"*", ".">> \o name.v ELSE name.v

\* SubjectName::from_str on the text of a DNS-name SAN; no text over
\* Letters is an IP literal
from_str(s) ==
    IF Len(s) >= 2 /\ SubSeq(s, 1, 2) = <<"*", ".">>
    THEN IF IsDnsName(SubSeq(s, 3, Len(s)))
         THEN Ok(WildcardDnsName(SubSeq(s, 3, Len(s))))
         ELSE Err("InvalidSubjectName")
    ELSE IF IsDnsName(s) THEN Ok(DnsName(s))
    ELSE Err("InvalidSubjectName")

\* params.subject_alt_names: an IP gives an IP SAN, any other name a DNS SAN
SanType(name) ==
    IF name.kind = "IPAddress" THEN [general |-> "IPAddress", v |-> name.v]
    ELSE [general |-> "DNSName", v |-> to_string(name)]

\* the filter_map of Cert::new over the general names of the leaf
RECURSIVE SanOfLeaf(_)
SanOfLeaf(general_names) ==
    IF general_names = <<>> THEN <<>>
    ELSE LET g == Head(general_names)
             rest == SanOfLeaf(Tail(general_names))
         IN IF g.general = "DNSName" /\ from_str(g.v).ok
            THEN <<from_str(g.v).v>> \o rest
            ELSE rest

\* the SAN list of the certificate new_self_signed returns: the leaf is
\* serialised with the SANs of the request and parsed back by Cert::new
new_self_signed(req) ==
    SanOfLeaf([i \in DOMAIN req.san |-> SanType(req.san[i])])

NewSelfSigned ==
    /\ last = Other
    /\ \E san \in SanLists :
          last' = [op |-> "new_self_signed", req |-> [san |-> san],
                   san |-> new_self_signed([san |-> san])]
    /\ UNCHANGED <<portVars, poolVars, keyring>>

\* any request for a self-signed certificate
SpecSelfSigned == InitKeyring /\ [][NewSelfSigned]_vars

C22_SelfSignedDnsSan ==
    (/\ last.op = "new_self_signed"
     /\ \A i \in DOMAIN last.req.san : last.req.san[i].kind # "IPAddress")
        => last.san = last.req.san

\* ---------------------------------------------------------------------
\* The end of a forwarding task
\* ---------------------------------------------------------------------

\* C23: when the copy phase of a forwarder has ended, shutdown is called on
\* both the inbound and the outbound stream and errors are ignored: a
\* failing shutdown of one stream neither keeps the other from being shut
\* down nor makes the task end with an error.
C23_ShutdownBoth ==
    (last.op = "task_end" /\ last.at \in {"shutdown_in", "shutdown_out"})
        => (last.shutdown = {"stream", "out"} /\ last.result = "ok")

\* C23 for a task whose inbound shutdown succeeded: the outbound stream is
\* shut down too
C23_ShutdownOutAfterIn ==
    (last.op = "task_end" /\ last.at = "shutdown_out")
        => last.shutdown = {"stream", "out"}

\* C24: a failure of the upstream name resolution (a resolution without
\* any address included), of the socket creation, the outbound connect or
\* either TLS handshake ends the task by returning the I/O error; the task
\* does not panic.
C24_HandshakeFailureReturnsError ==
    (last.op = "task_end" /\ last.at \in Handshake) => last.result = "err"

\* C24 after name resolution: connect and the TLS handshakes
C24_AfterLookupReturnsError ==
    (last.op = "task_end" /\ last.at \in Handshake \ {"lookup"})
        => last.result = "err"

\* ---------------------------------------------------------------------
\* The outbound TLS client config of a forwarder
\* ---------------------------------------------------------------------

\* C25: whenever start_proxy spawns a forwarder for the upstream conn it
\* selected, the forwarder is handed an outbound TLS client config exactly
\* when conn.tls is true, whatever the state of the port context (before or
\* after setup, after apply); an upstream marked /tls is never forwarded to
\* in plaintext.
C25_ClientConfigIffTls ==
    (last.op = "start_proxy" /\ last.spawned)
        => (last.tls_client_config <=> last.conn.tls)

\* C25 in one direction: no client config goes to a plaintext upstream
C25_ClientConfigOnlyForTls ==
    (last.op = "start_proxy" /\ last.spawned)
        => (last.tls_client_config => last.conn.tls)

\* ---------------------------------------------------------------------
\* Address parsing and the construction of a port context, on any stack
\* ---------------------------------------------------------------------

\* a protocol that may follow the port in a Multiaddr
Http == [p |-> "http", addr |-> "", port |-> 0]

Protocols ==
    {Ip4("127.0.0.1"), Ip6("::1"), Dns("c.test"), Dns("bad name"),
     Tcp(0), Tcp(7001), Tls, Http}

\* a Multiaddr is any sequence of protocols
Stacks == UNION {[1..n -> Protocols] : n \in 0..MaxStack}

UpstreamLists == {<<>>, <<UA>>, <<UA, UT>>, <<<<Dns("bad name"), Tcp(9003)>>>>}

\* multiaddr_to_tcp on a listen address
ParseListen ==
    /\ last = Other
    /\ \E stack \in Stacks :
          last' = [op |-> "multiaddr_to_tcp", stack |-> stack,
                   result |-> multiaddr_to_tcp(stack)]
    /\ UNCHANGED <<portVars, poolVars, keyring>>

\* multiaddr_to_host on an upstream address
ParseUpstream ==
    /\ last = Other
    /\ \E stack \in Stacks :
          last' = [op |-> "multiaddr_to_host", stack |-> stack,
                   result |-> multiaddr_to_host(stack)]
    /\ UNCHANGED <<portVars, poolVars, keyring>>

\* TcpPortContext::new on a port entry
Construct ==
    /\ last = Other
    /\ \E listen \in Stacks, upstream \in UpstreamLists, tls \in BOOLEAN :
          last' = [op |-> "new", entry |-> PortEntry(listen, upstream, tls),
                   result |-> New(PortEntry(listen, upstream, tls), 0)]
    /\ UNCHANGED <<portVars, poolVars, keyring>>

NextAddr ==
    \/ ParseListen
    \/ ParseUpstream
    \/ Construct

\* the two parsers and the constructor on any address
SpecAddr == InitKeyring /\ [][NextAddr]_vars

EndsInTls(stack) == Len(stack) >= 1 /\ stack[Len(stack)] = Tls

\* /{ip4|ip6}/<addr>/tcp/<port>[/tls] with port > 0
ListenGrammar(stack) ==
    /\ Len(stack) \in {2, 3}
    /\ stack[1].p \in {"ip4", "ip6"}
    /\ stack[2].p = "tcp"
    /\ stack[2].port > 0
    /\ Len(stack) = 3 => stack[3] = Tls

\* the same with /dns/<name> as another first element
UpstreamGrammar(stack) ==
    /\ Len(stack) \in {2, 3}
    /\ stack[1].p \in {"ip4", "ip6", "dns"}
    /\ stack[1].p = "dns" => stack[1].addr \notin InvalidDnsNames
    /\ stack[2].p = "tcp"
    /\ stack[2].port > 0
    /\ Len(stack) = 3 => stack[3] = Tls

\* C26: constructing a TCP port context builds a TLS termination exactly
\* when the port entry declares a TLS-termination block; it fails with
\* TlsTerminationConfigMissing exactly when no block is declared and the
\* listen stack ends in /tls; with no block and no /tls at the end the
\* context has no TLS termination.  (On entries whose addresses parse.)
C26_TlsTerminationBuilt ==
    (/\ last.op = "new"
     /\ multiaddr_to_tcp(last.entry.listen).ok
     /\ ParseServers(last.entry.upstream_servers).ok)
        => LET missing == ~last.entry.tls_termination /\ EndsInTls(last.entry.listen)
           IN  /\ ~last.result.ok <=> missing
               /\ ~last.result.ok => last.result.err = "TlsTerminationConfigMissing"
               /\ last.result.ok =>
                     (last.result.v.tls_termination.some <=> last.entry.tls_termination)

\* C26 on the listen addresses of the grammar
C26_TlsTerminationBuiltGrammar ==
    (last.op = "new" /\ ListenGrammar(last.entry.listen)) => C26_TlsTerminationBuilt

\* C27: a listen address is accepted exactly when its stack is ip4 or ip6,
\* tcp with a port above zero and at most one /tls after it, and is
\* rejected with InvalidListeningAddress otherwise; an upstream address may
\* also start with dns, has its outbound-TLS flag set exactly when the stack
\* ends in /tls, and is rejected with InvalidServerAddress when /tls is not
\* last or other elements follow the port.
C27_AddressGrammar ==
    /\ last.op = "multiaddr_to_tcp" =>
          /\ last.result.ok <=> ListenGrammar(last.stack)
          /\ ~last.result.ok => last.result.err = "InvalidListeningAddress"
    /\ last.op = "multiaddr_to_host" =>
          /\ last.result.ok <=> UpstreamGrammar(last.stack)
          /\ last.result.ok => (last.result.v.tls <=> EndsInTls(last.stack))
          /\ ~last.result.ok => last.result.err = "InvalidServerAddress"

\* C27 without the rejections of what follows the port: every address of
\* the grammar is accepted, every accepted address starts as the grammar
\* says, and the flag is set exactly when /tls is last
C27_AddressPrefix ==
    /\ last.op = "multiaddr_to_tcp" =>
          /\ ListenGrammar(last.stack) => last.result.ok
          /\ last.result.ok => ListenGrammar(SubSeq(last.stack, 1, 2))
          /\ ~last.result.ok => last.result.err = "InvalidListeningAddress"
    /\ last.op = "multiaddr_to_host" =>
          /\ UpstreamGrammar(last.stack) => last.result.ok
          /\ last.result.ok => UpstreamGrammar(SubSeq(last.stack, 1, 2))
          /\ last.result.ok => (last.result.v.tls <=> EndsInTls(last.stack))
          /\ ~last.result.ok => last.result.err = "InvalidServerAddress"

\* ---------------------------------------------------------------------
\* started_at and the socket state
\* ---------------------------------------------------------------------

\* C28: in every reachable state of a port context, after any sequence of
\* construction, event, setup, refresh, apply, reset and start_proxy,
\* started_at is set exactly when the stored socket state is Listening.
C28_StartedAtIffListening ==
    ctx.status.started_at.some <=> ctx.status.socket = "Listening"

\* a context that has been applied to and has forwarded a connection stores
\* the failed bind an event reports: started_at is not set
C28_Witness ==
    /\ last.op = "event"
    /\ last.state \notin {"Listening", "Unknown"}
    /\ ctx.status.socket = last.state
    /\ ~ctx.status.started_at.some
    /\ ctx.round_robin_counter > 0
    /\ ~fresh

\* ---------------------------------------------------------------------
\* Listeners and contexts after update()
\* ---------------------------------------------------------------------

ListenersAt(i) == {k \in DOMAIN listeners : listeners[k].index = i}

\* the listener of the reserved context, which update() placed after the
\* configured ones and dropped on return
IsReservedListener(k) ==
    /\ reserved_ports(ports, http_challenges) # <<>>
    /\ listeners[k].index = Len(ports)
    /\ listeners[k].inner.addr = RESERVED_ADDR
    /\ Cardinality(ListenersAt(Len(ports))) = 1

\* C29: after every update() the listeners of the pool and the contexts
\* that received Listening correspond one to one: the context at position i
\* received Listening exactly when the pool holds exactly one listener with
\* index i, bound to the address of that context, and the pool holds no
\* other listener (the reserved context, iterated last, has its own); of two
\* contexts with the same listen address only the first is Listening and the
\* other is PortAlreadyInUse, also when update() is repeated.
C29_ListenersMatchContexts ==
    last.op = "update" =>
        /\ \A i \in DOMAIN ports :
              ports[i].socket = "Listening"
                  <=> /\ Cardinality(ListenersAt(i - 1)) = 1
                      /\ \A k \in ListenersAt(i - 1) :
                            listeners[k].inner.addr = ports[i].listen
        /\ \A k \in DOMAIN listeners :
              \/ /\ listeners[k].index + 1 \in DOMAIN ports
                 /\ ports[listeners[k].index + 1].socket = "Listening"
              \/ IsReservedListener(k)
        /\ \A i \in DOMAIN ports, j \in DOMAIN ports :
              (i < j /\ ports[i].listen = ports[j].listen)
                  => /\ ports[j].socket # "Listening"
                     /\ ports[i].socket = "Listening"
                           => ports[j].socket = "PortAlreadyInUse"

\* update() repeated on two contexts with the same listen address: the
\* first is Listening, the second PortAlreadyInUse, one listener
C29_Witness ==
    /\ last.op = "update"
    /\ last.again
    /\ Len(ports) = 2
    /\ ports[1].listen = ports[2].listen
    /\ ports[1].socket = "Listening"
    /\ ports[2].socket = "PortAlreadyInUse"
    /\ Len(listeners) = 1

\* update() with the reserved context bound after a configured one
C29_ReservedWitness ==
    /\ last.op = "update"
    /\ Len(ports) = 1
    /\ ports[1].socket = "Listening"
    /\ Len(listeners) = 2
    /\ IsReservedListener(2)

\* ---------------------------------------------------------------------
\* The index select() returns
\* ---------------------------------------------------------------------

\* C30: every index select() returns is a valid position in the port
\* vector last passed to update() (below the number of configured
\* contexts), and the context at that position has the listen address of
\* the listener that accepted the stream, also while the reserved HTTP-01
\* listener is bound.
C30_IndexInPorts ==
    (last.op = "select" /\ last.result.some) =>
        /\ last.result.v[1] < Len(ports)
        /\ ports[last.result.v[1] + 1].listen = last.result.v[2].local

\* C30 with the reserved listener set apart: an index below the number of
\* configured contexts is the position of the context with the listen
\* address of the accepting listener; the only other index is that number
\* itself, returned for a stream the reserved listener accepted on
\* RESERVED_ADDR.
C30_IndexInPortsOrReserved ==
    (last.op = "select" /\ last.result.some) =>
        \/ /\ last.result.v[1] < Len(ports)
           /\ ports[last.result.v[1] + 1].listen = last.result.v[2].local
        \/ /\ last.result.v[1] = Len(ports)
           /\ last.result.v[2].local = RESERVED_ADDR
           /\ \A k \in DOMAIN ports : ports[k].listen.port # RESERVED_ADDR.port

\* the second of two contexts accepted a stream while the reserved listener
\* was bound
C30_Witness ==
    /\ last.op = "select"
    /\ last.result.some
    /\ last.result.v[1] = 1
    /\ Len(ports) = 2
    /\ Len(listeners) = 3

\* the reserved listener accepted a stream
C30_ReservedAccepted ==
    /\ last.op = "select"
    /\ last.result.some
    /\ last.result.v[1] = Len(ports)
    /\ Len(ports) > 0

====
